---------------------------- MODULE Spec2Model ----------------------------
(***************************************************************************)
(* Model of the qinglong check-in scripts:                                 *)
(*   - the cache variant of the check-in runner (src/ybt_sign.js, the      *)
(*     second script of the file, lines 364-881);                          *)
(*   - the Notifier sendNotify (src/scripts/YBT/sendNotify.js);            *)
(*   - the classification of the panel-API variant (src/ybt_sign.js,       *)
(*     lines 105-162).                                                     *)
(*                                                                         *)
(* One action is one continuation of the node event loop: everything the   *)
(* code runs between two awaits.  Strings the code inspects character by   *)
(* character (the account list) are sequences of one-character strings.    *)
(***************************************************************************)
EXTENDS Integers, Sequences, FiniteSets, TLC

VARIABLES
    pc,           \* where main() of the runner stands
    YBT_USERS,    \* process.env.YBT_USERS of the running process
    users,        \* const users = getUserList()
    idx,          \* the loop index i of main, 1-based
    retryCount,   \* performSign's retryCount of the request in flight
    requests,     \* requests issued for the current account (history)
    delays,       \* inter-account delay(1000) steps taken in this run (history)
    results,      \* const results = [] of main
    report,       \* the counts formatNotifyMessage rendered, or NoReport
    exitCode,     \* the process exit code once main has settled, else "none"
    ended,        \* what the run that has ended went through (history)
    cacheFile,    \* the file CONFIG.CACHE_FILE
    today,        \* the local calendar day getTodayString() returns
    nstate,       \* sendNotify: "idle" | "running" | "returned" | "threw"
    ncaller,      \* who awaits sendNotify: "main" | "direct" | "none"
    chan,         \* per channel: "idle" | "skipped" | "posting" | "ok" | "fail"
    nret,         \* the value sendNotify returned
    nargs,        \* the title and content sendNotify was called with (history)
    nbody,        \* the content handed to the channels
    posts,        \* HTTP POSTs issued by the running sendNotify call (history)
    ncalls,       \* sendNotify calls of this run (history)
    lastCls,      \* the classification made by the step just taken (history)
    firstToday,   \* account -> numbers of its latest first success today,
                  \* kept while no cache file call has failed today (history)
    ioFailed,     \* a cache file read or write failed today (history)
    lastRead,     \* the readCache call a cache function called on its own has
                  \* just made, and the one right before it (history)
    weekly,       \* the run of the weekly notification script
    panel         \* the sendQLNotify call of the panel-API variant

vars == << pc, YBT_USERS, users, idx, retryCount, requests, delays, results, report,
           exitCode, ended, cacheFile, today, nstate, ncaller, chan, nret, nargs,
           nbody, posts, ncalls, lastCls, firstToday, ioFailed, lastRead,
           weekly, panel >>

runVars    == << pc, YBT_USERS, users, idx, retryCount, requests, delays, results,
                 report, exitCode, ended >>
notifyVars == << nstate, ncaller, chan, nret, nargs, nbody, posts, ncalls >>
cacheVars  == << cacheFile, firstToday, ioFailed, lastRead >>

-----------------------------------------------------------------------------
(* Bounds *)

\* calendar days a behaviour spans
MaxDay == 2
\* credential variables set at once when sendNotify is called on its own
MaxCreds == 4
\* length of the YBT_USERS strings the account-list specification enumerates
MaxEnvLen == 4

(* Program constants *)

MAX_RETRY == 3
BODY_CAP == 4000
\* main cuts the report to at most this many characters before it notifies
REPORT_CAP == 1500
\* '\n\n...(内容过长已截断)'.length
MARKER_LEN == 14

\* a JSON field that is missing or not a number (typeof x !== 'number')
Absent == -1

-----------------------------------------------------------------------------
(* Strings: getUserList *)

Delims == {"&", "\n"}
Whitespace == {" ", "\n"}
Chars == {"a", "b", "&", "\n", " "}

\* String.prototype.split(/[\n&]/): cur is the piece being read
RECURSIVE SplitOn(_, _)
SplitOn(s, cur) ==
    IF s = << >> THEN << cur >>
    ELSE IF Head(s) \in Delims
         THEN << cur >> \o SplitOn(Tail(s), << >>)
         ELSE SplitOn(Tail(s), Append(cur, Head(s)))

RECURSIVE TrimLeft(_)
TrimLeft(s) ==
    IF s # << >> /\ Head(s) \in Whitespace THEN TrimLeft(Tail(s)) ELSE s

RECURSIVE TrimRight(_)
TrimRight(s) ==
    IF s # << >> /\ s[Len(s)] \in Whitespace
    THEN TrimRight(SubSeq(s, 1, Len(s) - 1))
    ELSE s

\* String.prototype.trim
Trim(s) == TrimRight(TrimLeft(s))

MapSeq(f(_), s) == [k \in 1..Len(s) |-> f(s[k])]

NonEmpty(u) == Len(u) > 0

\* the environment variable: unset, or a string
UnsetEnv == [set |-> FALSE, val |-> << >>]
SetEnv(s) == [set |-> TRUE, val |-> s]

getUserListDropsNothing(env) ==
    IF ~env.set \/ env.val = << >> THEN << >>
    ELSE MapSeq(Trim, SplitOn(env.val, << >>))

getUserList(env) ==
    IF ~env.set \/ env.val = << >> THEN << >>
    ELSE SelectSeq(MapSeq(Trim, SplitOn(env.val, << >>)), NonEmpty)

-----------------------------------------------------------------------------
(* The day cache *)

\* an empty JSON object
EmptyMap == [u \in {} |-> 0]

\* no cache entry (getFromCache's null)
NoEntry == [date |-> 0, sign_count |-> 0, get_traffic |-> 0, total_traffic |-> 0]

\* the file before the first run
NoFile == [exists |-> FALSE, entries |-> EmptyMap]

\* x || 0 for a field that is a number or missing
OrZero(x) == IF x = Absent THEN 0 ELSE x

\* what the file system does to the calls of one step:
\* read = readFileSync and JSON.parse succeed, purge = the writeFileSync of
\* readCache succeeds, write = the writeFileSync of saveToCacheIfFirstSign succeeds
IO == [read : BOOLEAN, purge : BOOLEAN, write : BOOLEAN]

writeCacheLosesData(file, cache, ok) == file

\* writeCache: a failed writeFileSync is logged and leaves the file as it was
writeCache(file, cache, ok) ==
    IF ok THEN [exists |-> TRUE, entries |-> cache] ELSE file

\* the entries of cache dated day
Cleaned(cache, day) ==
    LET keep == {u \in DOMAIN cache : cache[u].date = day}
    IN  [u \in keep |-> cache[u]]

readCacheServesOnFailure(file, day, io) ==
    IF ~file.exists
    THEN [ret |-> EmptyMap, file |-> file, failed |-> FALSE]
    ELSE [ret |-> Cleaned(file.entries, day), file |-> file,
          failed |-> ~io.read]

readCacheKeepsAll(file, day, io) ==
    IF ~file.exists
    THEN [ret |-> EmptyMap, file |-> file, failed |-> FALSE]
    ELSE IF ~io.read
    THEN [ret |-> EmptyMap, file |-> file, failed |-> TRUE]
    ELSE [ret |-> file.entries, file |-> file, failed |-> FALSE]

\* readCache: ret is the returned object, file the file afterwards,
\* failed whether a file system call failed
readCache(file, day, io) ==
    IF ~file.exists
    THEN [ret |-> EmptyMap, file |-> file, failed |-> FALSE]
    ELSE IF ~io.read
    THEN [ret |-> EmptyMap, file |-> file, failed |-> TRUE]
    ELSE LET cleaned == Cleaned(file.entries, day)
             purged  == Cardinality(DOMAIN cleaned) #
                        Cardinality(DOMAIN file.entries)
         IN  [ret    |-> cleaned,
              file   |-> IF purged THEN writeCache(file, cleaned, io.purge)
                         ELSE file,
              failed |-> purged /\ ~io.purge]

\* cache[username] = entry
Put(cache, u, e) ==
    [x \in (DOMAIN cache) \cup {u} |-> IF x = u THEN e ELSE cache[x]]

CacheEntryDropsTraffic(signData, day) ==
    [date          |-> day,
     sign_count    |-> OrZero(signData.sign_count),
     get_traffic   |-> 0,
     total_traffic |-> 0]

\* the entry saveToCacheIfFirstSign stores
CacheEntry(signData, day) ==
    [date          |-> day,
     sign_count    |-> OrZero(signData.sign_count),
     get_traffic   |-> OrZero(signData.get_traffic),
     total_traffic |-> OrZero(signData.total_traffic)]

\* saveToCacheIfFirstSign(username, signData, true)
saveToCacheIfFirstSign(file, u, signData, day, io) ==
    LET r == readCache(file, day, io)
    IN  [file   |-> writeCache(r.file, Put(r.ret, u, CacheEntry(signData, day)),
                               io.write),
         failed |-> r.failed \/ ~io.write]

getFromCacheAnyDay(file, u, day, io) ==
    [hit    |-> IF file.exists /\ u \in DOMAIN file.entries
                THEN file.entries[u] ELSE NoEntry,
     file   |-> file,
     failed |-> FALSE]

\* getFromCache(username): hit is the entry, or NoEntry for null
getFromCache(file, u, day, io) ==
    LET r == readCache(file, day, io)
    IN  [hit    |-> IF u \in DOMAIN r.ret /\ r.ret[u].date = day
                    THEN r.ret[u] ELSE NoEntry,
         file   |-> r.file,
         failed |-> r.failed]

-----------------------------------------------------------------------------
(* Upstream responses and their classification *)

NOT_FOUND == "user_not_found"          \* the message '用户不存在'
TopMessages == {NOT_FOUND, "other"}

\* response.data is null or not an object
NullBody ==
    [top |-> FALSE, hasData |-> FALSE, sign_status |-> FALSE,
     sign_count |-> Absent, get_traffic |-> Absent, total_traffic |-> Absent,
     message |-> "other"]

\* an object without a data object, its top-level message being m
PlainBody(m) ==
    [top |-> TRUE, hasData |-> FALSE, sign_status |-> FALSE,
     sign_count |-> Absent, get_traffic |-> Absent, total_traffic |-> Absent,
     message |-> m]

\* an object with a data object
DataBody(status, sc, gt, tt, m) ==
    [top |-> TRUE, hasData |-> TRUE, sign_status |-> status,
     sign_count |-> sc, get_traffic |-> gt, total_traffic |-> tt,
     message |-> m]

\* the bodies the upstream answers with
Bodies ==
    {NullBody,
     PlainBody(NOT_FOUND),
     PlainBody("other"),
     DataBody(TRUE, 10, 50, 500, "other"),
     DataBody(TRUE, 10, Absent, Absent, "other"),
     DataBody(TRUE, 10, 50, Absent, "other"),
     DataBody(TRUE, Absent, Absent, Absent, NOT_FOUND),
     DataBody(FALSE, 10, 50, 500, "other"),
     DataBody(FALSE, Absent, Absent, Absent, NOT_FOUND)}


Statuses == {200, 400, 500}

validateStatus(status) == status = 200 \/ status = 400

\* errors axios rejects with: code is error.code, message error.message
TransportErrors ==
    {[code |-> "ETIMEDOUT",    message |-> "connect ETIMEDOUT"],
     [code |-> "ECONNABORTED", message |-> "timeout of 12000ms exceeded"],
     [code |-> "ECONNREFUSED", message |-> "connect ECONNREFUSED"]}

\* the rejection of a response validateStatus refuses
StatusError(status) ==
    [code |-> "ERR_BAD_RESPONSE", message |-> "Request failed with status code"]

\* error.message.includes('timeout')
IncludesTimeout(message) == message = "timeout of 12000ms exceeded"

RetryableAlways(err) == TRUE

\* the condition of performSign's catch branch, without the retry bound
Retryable(err) ==
    \/ err.code = "ECONNRESET"
    \/ err.code = "ETIMEDOUT"
    \/ err.code = "ENOTFOUND"
    \/ IncludesTimeout(err.message)

\* what performSign resolves to
Answered(status, body) ==
    [success |-> TRUE, status |-> status, data |-> body,
     error |-> "", code |-> ""]
Failed(err) ==
    [success |-> FALSE, status |-> 0, data |-> NullBody,
     error |-> err.message, code |-> err.code]

\* the details text of an outcome, by its lines
Details(kind, sc, gt, tt, status, code) ==
    [kind |-> kind, sign_count |-> sc, get_traffic |-> gt,
     total_traffic |-> tt, status |-> status, code |-> code]

OutcomeMarksSuccessFirst(u, success, message, details, first, source) ==
    [username |-> u, success |-> success, message |-> message,
     details |-> details, isFirstSign |-> success, dataSource |-> source]

\* the object processSignResult (cache variant) returns
Outcome(u, success, message, details, first, source) ==
    [username |-> u, success |-> success, message |-> message,
     details |-> details, isFirstSign |-> first, dataSource |-> source]

IsNumber(x) == x # Absent

IsFirstSignResponseNoTypeCheck(status, data) ==
    /\ status = 200
    /\ data.top /\ data.hasData
    /\ data.sign_status = TRUE

\* the condition of processSignResult's first-sign branch
IsFirstSignResponse(status, data) ==
    /\ status = 200
    /\ data.top /\ data.hasData
    /\ data.sign_status = TRUE
    /\ IsNumber(data.get_traffic)
    /\ IsNumber(data.total_traffic)

IsAlreadySignedAnyStatus(data) ==
    data.top /\ data.hasData

\* the condition of the already-signed branch, reached when the first failed
IsAlreadySigned(data) ==
    data.top /\ data.hasData /\ data.sign_status = TRUE

\* `签到失败: ${result.error}` and the fixed messages
Message(text, error) == [text |-> text, error |-> error]

\* result.code || 'UNKNOWN'
CodeOrUnknown(code) == IF code = "" THEN "UNKNOWN" ELSE code

NoDetails == Details("none", 0, 0, 0, 0, "")

\* the outcome processSignResult (cache variant) returns for result, hit being
\* what getFromCache returned where the code calls it.  The first line of the
\* details (signData.message) is left out; kind names the lines that follow:
\* "errcode" the error code, "full" count and both traffic numbers,
\* "count_note" the count and the note that traffic data is unavailable,
\* "hint" the advice to check the name, "raw" the status and body dump.
OutcomeOf(u, result, hit) ==
    IF ~result.success
    THEN Outcome(u, FALSE, Message("sign_failed", result.error),
                 Details("errcode", 0, 0, 0, 0, CodeOrUnknown(result.code)),
                 FALSE, "error")
    ELSE IF IsFirstSignResponse(result.status, result.data)
    THEN Outcome(u, TRUE, Message("sign_ok", ""),
                 Details("full", OrZero(result.data.sign_count),
                         OrZero(result.data.get_traffic),
                         OrZero(result.data.total_traffic), 0, ""),
                 TRUE, "api")
    ELSE IF IsAlreadySigned(result.data)
    THEN IF hit # NoEntry
         THEN Outcome(u, TRUE, Message("already_signed", ""),
                      Details("full", OrZero(hit.sign_count),
                              OrZero(hit.get_traffic),
                              OrZero(hit.total_traffic), 0, ""),
                      FALSE, "cache")
         ELSE Outcome(u, TRUE, Message("already_signed", ""),
                      Details("count_note", OrZero(result.data.sign_count),
                              0, 0, 0, ""),
                      FALSE, "api_limited")
    ELSE IF result.data.top /\ result.data.message = NOT_FOUND
    THEN Outcome(u, FALSE, Message(NOT_FOUND, ""),
                 Details("hint", 0, 0, 0, 0, ""), FALSE, "error")
    ELSE Outcome(u, FALSE, Message("sign_failed", ""),
                 Details("raw", 0, 0, 0, result.status, ""), FALSE, "error")

processSignResultSavesAlreadySigned(u, result, file, day, io) ==
    IF result.success /\ IsFirstSignResponse(result.status, result.data)
    THEN LET s == saveToCacheIfFirstSign(file, u, result.data, day, io)
         IN  [out |-> OutcomeOf(u, result, NoEntry), hit |-> NoEntry,
              file |-> s.file, failed |-> s.failed]
    ELSE IF result.success /\ IsAlreadySigned(result.data)
    THEN LET c == getFromCache(file, u, day, io)
             s == saveToCacheIfFirstSign(c.file, u, result.data, day, io)
         IN  [out |-> OutcomeOf(u, result, c.hit), hit |-> c.hit,
              file |-> s.file, failed |-> c.failed]
    ELSE [out |-> OutcomeOf(u, result, NoEntry), hit |-> NoEntry,
          file |-> file, failed |-> FALSE]

\* processSignResult (cache variant) with its cache calls: out the outcome,
\* hit the entry getFromCache returned (NoEntry when not called or null),
\* file the cache file afterwards, failed whether a file call failed
processSignResult(u, result, file, day, io) ==
    IF result.success /\ IsFirstSignResponse(result.status, result.data)
    THEN LET s == saveToCacheIfFirstSign(file, u, result.data, day, io)
         IN  [out |-> OutcomeOf(u, result, NoEntry), hit |-> NoEntry,
              file |-> s.file, failed |-> s.failed]
    ELSE IF result.success /\ IsAlreadySigned(result.data)
    THEN LET c == getFromCache(file, u, day, io)
         IN  [out |-> OutcomeOf(u, result, c.hit), hit |-> c.hit,
              file |-> c.file, failed |-> c.failed]
    ELSE [out |-> OutcomeOf(u, result, NoEntry), hit |-> NoEntry,
          file |-> file, failed |-> FALSE]

\* processSignResult of the panel-API variant: success and message
processSignResultBasic(result) ==
    IF ~result.success
    THEN [success |-> FALSE, message |-> Message("sign_failed", result.error)]
    ELSE IF result.status = 200 /\ result.data.top /\ result.data.hasData
    THEN [success |-> TRUE, message |-> Message("sign_ok", "")]
    ELSE IF /\ result.status = 400
            /\ result.data.top /\ result.data.hasData
            /\ result.data.sign_status = TRUE
    THEN [success |-> TRUE, message |-> Message("already_signed", "")]
    ELSE IF result.data.top /\ result.data.message = NOT_FOUND
    THEN [success |-> FALSE, message |-> Message(NOT_FOUND, "")]
    ELSE [success |-> FALSE, message |-> Message("sign_failed", "")]

Count(rs, P(_)) == Cardinality({k \in 1..Len(rs) : P(rs[k])})

formatNotifyMessageCountsSuccesses(rs) ==
    LET successCount == Count(rs, LAMBDA r : r.success)
    IN  [total   |-> successCount,
         success |-> successCount,
         fail    |-> 0,
         first   |-> Count(rs, LAMBDA r : r.isFirstSign),
         cached  |-> Count(rs, LAMBDA r : r.dataSource = "cache")]

\* the counts formatNotifyMessage (cache variant) renders
formatNotifyMessage(rs) ==
    LET successCount == Count(rs, LAMBDA r : r.success)
    IN  [total   |-> Len(rs),
         success |-> successCount,
         fail    |-> Len(rs) - successCount,
         first   |-> Count(rs, LAMBDA r : r.isFirstSign),
         cached  |-> Count(rs, LAMBDA r : r.dataSource = "cache")]

NoReport == [total |-> 0, success |-> 0, fail |-> 0, first |-> 0, cached |-> 0]

-----------------------------------------------------------------------------
(* The Notifier: sendNotify *)

\* notifyMethods, by the functions it lists
Channels ==
    {"serverChanNotify", "telegramNotify", "dingTalkNotify",
     "workWechatNotify", "barkNotify", "pushPlusNotify", "feishuNotify"}

\* the environment variables the channels read
CredVars ==
    {"PUSH_KEY", "SCKEY", "TG_BOT_TOKEN", "TG_USER_ID", "DD_BOT_TOKEN",
     "DD_BOT_SECRET", "WW_BOT_KEY", "BARK_PUSH", "PUSH_PLUS_TOKEN",
     "FEISHU_BOT_TOKEN"}

EnabledAnyVar(c, env) ==
    CASE c = "serverChanNotify" -> "PUSH_KEY" \in env \/ "SCKEY" \in env
      [] c = "telegramNotify"   -> "TG_BOT_TOKEN" \in env \/ "TG_USER_ID" \in env
      [] c = "dingTalkNotify"   -> "DD_BOT_TOKEN" \in env \/ "DD_BOT_SECRET" \in env
      [] c = "workWechatNotify" -> "WW_BOT_KEY" \in env
      [] c = "barkNotify"       -> "BARK_PUSH" \in env
      [] c = "pushPlusNotify"   -> "PUSH_PLUS_TOKEN" \in env
      [] c = "feishuNotify"     -> "FEISHU_BOT_TOKEN" \in env

\* the credential guard at the head of each channel function:
\* env is the set of variables that are set (to a non-empty value)
Enabled(c, env) ==
    CASE c = "serverChanNotify" -> "PUSH_KEY" \in env \/ "SCKEY" \in env
      [] c = "telegramNotify"   -> "TG_BOT_TOKEN" \in env /\ "TG_USER_ID" \in env
      [] c = "dingTalkNotify"   -> "DD_BOT_TOKEN" \in env
      [] c = "workWechatNotify" -> "WW_BOT_KEY" \in env
      [] c = "barkNotify"       -> "BARK_PUSH" \in env
      [] c = "pushPlusNotify"   -> "PUSH_PLUS_TOKEN" \in env
      [] c = "feishuNotify"     -> "FEISHU_BOT_TOKEN" \in env

\* a content argument: a string of len characters, or undefined
Str(len) == [isString |-> TRUE, len |-> len]
Undefined == [isString |-> FALSE, len |-> 0]

\* !content
Falsy(content) == ~content.isString \/ content.len = 0

TruncateFromCap(content) ==
    IF content.len >= BODY_CAP THEN Str(BODY_CAP + MARKER_LEN) ELSE content

\* content.substring(0, 4000) + '\n\n...(内容过长已截断)' when too long
Truncate(content) ==
    IF content.len > BODY_CAP THEN Str(BODY_CAP + MARKER_LEN) ELSE content

IdleChannels == [c \in Channels |-> "idle"]

AnySucceededNeedsAll(ch) == \A c \in Channels : ch[c] = "ok"

\* successCount > 0 once every channel has settled
AnySucceeded(ch) == \E c \in Channels : ch[c] = "ok"

SettledNever(ch) == FALSE

SettledOnFirst(ch) == \E c \in Channels : ch[c] \in {"ok", "fail"}

\* Promise.allSettled(promises) has resolved
Settled(ch) == \A c \in Channels : ch[c] # "posting"

\* a sendNotify that rejects: the module the runner loads from
\* ./sendNotify.js is whatever file stands there when it runs
Rejected(content) ==
    [state |-> "threw", chan |-> IdleChannels, ret |-> FALSE,
     body |-> content, posts |-> 0]

\* sendNotify up to its await: title is "" when missing.  A channel without
\* its credential returns false at once; the others have issued their POST.
SendNotifyCall(title, content, env) ==
    IF title = "" /\ Falsy(content)
    THEN [state |-> "returned", chan |-> IdleChannels, ret |-> FALSE,
          body |-> content, posts |-> 0]
    ELSE IF ~content.isString
    THEN [state |-> "threw", chan |-> IdleChannels, ret |-> FALSE,
          body |-> content, posts |-> 0]
    ELSE LET ch == [c \in Channels |->
                       IF Enabled(c, env) THEN "posting" ELSE "skipped"]
         IN  [state |-> IF Settled(ch) THEN "returned" ELSE "running",
              chan  |-> ch,
              ret   |-> IF Settled(ch) THEN AnySucceeded(ch) ELSE FALSE,
              body  |-> Truncate(content),
              posts |-> Cardinality({c \in Channels : ch[c] = "posting"})]

-----------------------------------------------------------------------------
(* The weekly notification script *)

\* a value of process.env.WEEKLY_NOTIFY_ENABLED
EnvUnset == [set |-> FALSE, val |-> ""]
EnvSet(v) == [set |-> TRUE, val |-> v]

\* the negation of main's test notifyEnabled !== 'true'
NotifyEnabled(notifyEnabled) == notifyEnabled.set /\ notifyEnabled.val = "true"

\* getCurrentWeekday's values
Weekdays == 0..6

\* a configuration, by what the script reads of it: whether it is null,
\* whether settings.enabled is anything but false, whether it has a
\* notifications object and for which days, whether the days' entries have a
\* non-empty string title and content (they are missing otherwise), and
\* whether title_prefix is set
getDefaultConfig ==
    [isNull |-> FALSE, enabled |-> TRUE, hasNotifications |-> TRUE,
     days |-> Weekdays, titleOk |-> TRUE, contentOk |-> TRUE,
     title_prefix |-> TRUE]

\* JSON.parse of the text null
NullConfig ==
    [isNull |-> TRUE, enabled |-> TRUE, hasNotifications |-> FALSE,
     days |-> {}, titleOk |-> FALSE, contentOk |-> FALSE,
     title_prefix |-> FALSE]

\* what stands at configPath when the script starts
MissingFile == [kind |-> "missing", config |-> NullConfig]
UnparsableFile == [kind |-> "unparsable", config |-> NullConfig]
JsonFile(config) == [kind |-> "json", config |-> config]

\* createDefaultConfig: the file is there afterwards unless the write fails
createDefaultConfig(writeOk) == writeOk

\* loadConfig: a missing file is created first; whatever fails on the way is
\* caught and the built-in default returned
loadConfig(file, readOk, writeOk) ==
    LET created == file.kind = "missing" /\ createDefaultConfig(writeOk)
        there   == file.kind # "missing" \/ created
        text    == IF file.kind = "missing" THEN JsonFile(getDefaultConfig)
                   ELSE file
    IN  IF there /\ readOk /\ text.kind = "json"
        THEN [config |-> text.config, created |-> created, failed |-> FALSE]
        ELSE [config |-> getDefaultConfig, created |-> created,
              failed |-> TRUE]

\* validateConfig(config).length > 0
validateConfig(config) ==
    \/ config.isNull
    \/ ~config.hasNotifications
    \/ (config.days # {} /\ (~config.titleOk \/ ~config.contentOk))

NoNote == [isNull |-> TRUE, prefix |-> "", name |-> "", content |-> Undefined]

\* process.env.WEEKLY_NOTIFY_TITLE || config.title_prefix ||
\* CONFIG.DEFAULT_TITLE_PREFIX
titlePrefix(config, titleSet) ==
    IF titleSet THEN "WEEKLY_NOTIFY_TITLE"
    ELSE IF config.title_prefix THEN "title_prefix"
    ELSE "DEFAULT_TITLE_PREFIX"

\* getTodayNotification: threw when reading config.settings of null throws,
\* a null note when the configuration disables notifications
getTodayNotification(config, weekday, titleSet) ==
    IF config.isNull
    THEN [threw |-> TRUE, note |-> NoNote]
    ELSE IF ~config.enabled
    THEN [threw |-> FALSE, note |-> NoNote]
    ELSE IF config.hasNotifications /\ weekday \in config.days
    THEN [threw |-> FALSE,
          note |-> [isNull |-> FALSE,
                    prefix |-> titlePrefix(config, titleSet),
                    name |-> IF config.titleOk THEN "title" ELSE "undefined",
                    content |-> IF config.contentOk THEN Str(BODY_CAP)
                                ELSE Undefined]]
    ELSE [threw |-> FALSE,
          note |-> [isNull |-> FALSE,
                    prefix |-> titlePrefix(config, titleSet),
                    name |-> "weekdayName",
                    content |-> Str(BODY_CAP)]]

\* the run of the script: its position, the inputs it read, whether it
\* loaded and validated a configuration, the notification it built, the
\* way the notification went out, and the process's exit code
NoWeekly ==
    [pc |-> "idle", notifyEnabled |-> EnvUnset, weekday |-> 0,
     loaded |-> FALSE, created |-> FALSE, errors |-> FALSE,
     config |-> NullConfig, note |-> NoNote, via |-> "none",
     exit |-> "none"]

-----------------------------------------------------------------------------
(* The panel-API variant: sendQLNotify *)

\* possibleUrls, by position in the list
possibleUrls == 1..6

\* what becomes of a PUT: the status of the answer, or 0 when the request
\* fails or times out
PutResults == {200, 201, 204, 404, 0}

\* axios resolves for a status its default validateStatus accepts, and
\* rejects for any other and when the request fails
Resolves(res) == res >= 200 /\ res < 300

AcceptsAny2xx(res) == Resolves(res)

\* the PUT resolved and response.status === 200 || response.status === 201
Accepts(res) == Resolves(res) /\ (res = 200 \/ res = 201)

\* the call of sendQLNotify: the urls requested so far in the order of the
\* requests, what became of the requests that are over, the number of
\* fallbackSendNotify calls and of sendNotify calls, the value returned and
\* whether the call threw
NoPanel ==
    [pc |-> "idle", sent |-> << >>, answers |-> << >>, fallbacks |-> 0,
     notifies |-> 0, ret |-> FALSE, threw |-> FALSE]

\* whether a rejection of sendNotify leaves fallbackSendNotify: its catch
\* logs it and returns false
EscapesFallback(rejected) == FALSE

\* fallbackSendNotify up to its await: without a sendNotify function it
\* returns false; a sendNotify that rejects is caught and false returned
fallbackSendNotify(isFunction, rejects, env) ==
    IF ~isFunction
    THEN [called |-> FALSE, call |-> Rejected(Str(REPORT_CAP))]
    ELSE IF rejects
    THEN [called |-> TRUE, call |-> Rejected(Str(REPORT_CAP))]
    ELSE [called |-> TRUE,
          call |-> SendNotifyCall("YBT_RESULT", Str(REPORT_CAP), env)]

-----------------------------------------------------------------------------
(* Inputs *)

StringsUpTo(n) == UNION {[1..k -> Chars] : k \in 0..n}

\* every value of YBT_USERS up to MaxEnvLen characters
AllEnvs == {UnsetEnv} \cup {SetEnv(s) : s \in StringsUpTo(MaxEnvLen)}

\* the values of YBT_USERS the runs are started with
RunEnvs ==
    {UnsetEnv,
     SetEnv(<< " ", "&" >>),
     SetEnv(<< "a" >>),
     SetEnv(<< "a", "&", "a" >>),
     SetEnv(<< " ", "a", "\n", "&", "b", " " >>)}

\* the credential variables set when a run notifies
RunCreds == {{"TG_BOT_TOKEN"}, {"PUSH_KEY"}}

\* the credential settings, titles and contents sendNotify is called with
\* on its own
AllCreds == {env \in SUBSET CredVars : Cardinality(env) <= MaxCreds}
Titles == {"", "title"}
Contents == {Undefined, Str(0), Str(BODY_CAP), Str(BODY_CAP + 1)}

\* the file system outcomes that differ for a step that reads the cache of
\* file and, when writes, saves an entry: a call not made cannot fail
IOChoices(file, day, writes) ==
    {io \in IO :
        /\ ~file.exists => io.read
        /\ (~io.read \/ Cleaned(file.entries, day) = file.entries) => io.purge
        /\ ~writes => io.write}

NoIO == [read |-> TRUE, purge |-> TRUE, write |-> TRUE]

-----------------------------------------------------------------------------
(* State *)

NoErr == [code |-> "", message |-> ""]
NoArgs == [title |-> "", content |-> Undefined, env |-> {}]
NoOutcome == Outcome(<< >>, FALSE, Message("", ""), NoDetails, FALSE, "")

\* what became of a request: answered with a status validateStatus accepts,
\* rejected for its status, or failed in transport
AnsweredWith(status, body) ==
    [kind |-> "answered", status |-> status, body |-> body, err |-> NoErr]
RejectedWith(status) ==
    [kind |-> "rejected", status |-> status, body |-> NullBody,
     err |-> StatusError(status)]
FailedWith(err) ==
    [kind |-> "failed", status |-> 0, body |-> NullBody, err |-> err]

\* no readCache call to speak of
NoRead ==
    [valid |-> FALSE, ret |-> EmptyMap, failed |-> FALSE, changed |-> FALSE,
     second |-> FALSE, prevRet |-> EmptyMap, prevFailed |-> FALSE,
     prevChanged |-> FALSE]

\* no run has ended, or one that had no account
NoRun == [total |-> 0, fail |-> 0, threw |-> FALSE, delivered |-> FALSE]

\* the run that ends now: its report's counts, whether sendNotify rejected
\* and whether it returned true
RunEnding ==
    [total     |-> report.total,
     fail      |-> report.fail,
     threw     |-> nstate = "threw",
     delivered |-> nstate = "returned" /\ nret]

EscapesMainUncaught(threw) == threw

\* whether main rejects: an exception of the notification block is caught
\* and logged by main, and nothing else in main throws
EscapesMain(threw) == FALSE

\* the exit code of the process: process.exit(1) in main().catch, else 0
ExitCode(rejected) == IF rejected THEN "1" ELSE "0"

NoCls ==
    [kind |-> "none", username |-> << >>, status |-> 0, body |-> NullBody,
     err |-> NoErr, pre |-> NoEntry, hit |-> NoEntry, out |-> NoOutcome,
     alt |-> NoOutcome, basic |-> Message("", ""), basicAlt |-> Message("", ""),
     writeOk |-> TRUE, readFailed |-> FALSE, fileChanged |-> FALSE,
     requests |-> 0]

Init ==
    /\ pc = "idle"
    /\ YBT_USERS = UnsetEnv
    /\ users = << >>
    /\ idx = 0
    /\ retryCount = 0
    /\ requests = 0
    /\ delays = 0
    /\ results = << >>
    /\ report = NoReport
    /\ exitCode = "none"
    /\ ended = NoRun
    /\ cacheFile = NoFile
    /\ today = 1
    /\ nstate = "idle"
    /\ ncaller = "none"
    /\ chan = IdleChannels
    /\ nret = FALSE
    /\ nargs = NoArgs
    /\ nbody = Undefined
    /\ posts = 0
    /\ ncalls = 0
    /\ lastCls = NoCls
    /\ firstToday = EmptyMap
    /\ ioFailed = FALSE
    /\ lastRead = NoRead
    /\ weekly = NoWeekly
    /\ panel = NoPanel

\* the same-day entry of u in the file as it stands
EntryToday(file, u, day) ==
    IF file.exists /\ u \in DOMAIN file.entries /\ file.entries[u].date = day
    THEN file.entries[u] ELSE NoEntry

OtherStatus(status) == IF status = 200 THEN 400 ELSE 200

-----------------------------------------------------------------------------
(* The runner: main (cache variant), performSign *)

\* main up to its first await: getUserList, the early return, readCache,
\* and the first request of performSign(users[0])
MainStart(env) ==
    /\ pc \in {"idle", "done"}
    /\ nstate = "idle"
    /\ YBT_USERS' = env
    /\ lastCls' = NoCls
    /\ UNCHANGED << retryCount, delays, results, report, today, notifyVars >>
    /\ ended' = NoRun
    /\ UNCHANGED << weekly, panel >>
    /\ IF Len(getUserList(env)) = 0
       THEN /\ pc' = "done"
            /\ exitCode' = ExitCode(FALSE)
            /\ users' = << >>
            /\ UNCHANGED << idx, requests, cacheVars >>
       ELSE \E io \in IOChoices(cacheFile, today, FALSE) :
              LET r == readCache(cacheFile, today, io)
              IN  /\ cacheFile' = r.file
                  /\ ioFailed' = (ioFailed \/ r.failed)
                  /\ firstToday' = IF r.failed THEN EmptyMap ELSE firstToday
                  /\ users' = getUserList(env)
                  /\ UNCHANGED lastRead
                  /\ pc' = "awaitSign"
                  /\ exitCode' = "none"
                  /\ idx' = 1
                  /\ requests' = 1

MayRetryOneMore(count, err) == count <= MAX_RETRY /\ Retryable(err)

\* the condition under which performSign's catch branch retries
MayRetry(count, err) == count < MAX_RETRY /\ Retryable(err)

performSignFailsAfterRetry(count, status, body) ==
    IF count > 0
    THEN Failed([code |-> "ETIMEDOUT", message |-> "connect ETIMEDOUT"])
    ELSE Answered(status, body)

\* what performSign(username, count) returns for an answered request
performSignAnswered(count, status, body) == Answered(status, body)

\* the history of one classification: the request's fate ev, the same-day
\* entry of the account before (pre), what getFromCache returned (hit), the
\* outcome (out), the outcome had the status been the other of 200 and 400
\* (alt), the panel-API variant's outcome for both, whether the write of
\* the entry succeeded, whether a read of the cache file failed, and whether
\* the file was changed
Classified(u, ev, result, io, p) ==
    LET other == Answered(OtherStatus(ev.status), ev.body)
    IN  [kind     |-> ev.kind,
         username |-> u,
         status   |-> ev.status,
         body     |-> ev.body,
         err      |-> ev.err,
         pre      |-> EntryToday(cacheFile, u, today),
         hit      |-> p.hit,
         out      |-> p.out,
         alt      |-> IF ev.kind = "answered"
                      THEN processSignResult(u, other, cacheFile, today, io).out
                      ELSE NoOutcome,
         basic    |-> processSignResultBasic(result).message,
         basicAlt |-> IF ev.kind = "answered"
                      THEN processSignResultBasic(other).message
                      ELSE Message("", ""),
         writeOk  |-> io.write,
         readFailed  |-> p.failed /\ ~io.read,
         fileChanged |-> p.file # cacheFile,
         requests |-> requests]

NotifyBeforeLast(i, n) == i + 1 < n

DelayAfterEvery(i, n) == i <= n

\* i < users.length - 1, for the i-th account of n counted from 1
MoreAccounts(i, n) == i < n

PushFront(rs, out) == << out >> \o rs

\* results.push(processedResult)
Push(rs, out) == Append(rs, out)

Numbers(details) ==
    [sign_count |-> details.sign_count, get_traffic |-> details.get_traffic,
     total_traffic |-> details.total_traffic]

\* main, from performSign's result to the next await: processSignResult,
\* results.push, then the inter-account delay or, after the last account,
\* formatNotifyMessage, the runner's truncation and the call of sendNotify
AfterSign(result, ev) ==
    \E io \in IOChoices(cacheFile, today,
                        result.success /\
                        IsFirstSignResponse(result.status, result.data)) :
      LET u == users[idx]
          p == processSignResult(u, result, cacheFile, today, io)
          rs == Push(results, p.out)
      IN  /\ results' = rs
          /\ cacheFile' = p.file
          /\ ioFailed' = (ioFailed \/ p.failed)
          /\ firstToday' = IF ioFailed \/ p.failed THEN EmptyMap
                           ELSE IF p.out.isFirstSign
                           THEN Put(firstToday, u, Numbers(p.out.details))
                           ELSE firstToday
          /\ lastCls' = Classified(u, ev, result, io, p)
          /\ UNCHANGED << lastRead, weekly, panel >>
          /\ UNCHANGED << YBT_USERS, users, idx, retryCount, requests, delays, today,
                          exitCode, ended >>
          /\ IF MoreAccounts(idx, Len(users))
             THEN /\ pc' = "nextDelay"
                  /\ UNCHANGED << report, notifyVars >>
             ELSE \E env \in RunCreds, rejects \in BOOLEAN :
                    LET call == IF rejects THEN Rejected(Str(REPORT_CAP))
                                ELSE SendNotifyCall("YBT_REPORT",
                                                    Str(REPORT_CAP), env)
                    IN  /\ report' = formatNotifyMessage(rs)
                        /\ nstate' = call.state
                        /\ ncaller' = "main"
                        /\ chan' = call.chan
                        /\ nret' = call.ret
                        /\ nargs' = [title |-> "YBT_REPORT",
                                      content |-> Str(REPORT_CAP),
                                      env |-> env]
                        /\ nbody' = call.body
                        /\ posts' = call.posts
                        /\ ncalls' = ncalls + 1
                        /\ pc' = CASE call.state = "running" -> "notifying"
                                   [] call.state = "threw" -> "caught"
                                   [] OTHER -> "finalDelay"

\* performSign's catch branch
Catch(ev) ==
    IF MayRetry(retryCount, ev.err)
    THEN /\ pc' = "retryDelay"
         /\ lastCls' = [NoCls EXCEPT !.kind = "retry", !.err = ev.err]
         /\ UNCHANGED << YBT_USERS, users, idx, retryCount, requests, delays,
                         results, report, exitCode, ended, today, notifyVars,
                         cacheVars, weekly, panel >>
    ELSE AfterSign(Failed(ev.err), ev)

\* the request is answered with a status validateStatus accepts
HttpAnswered ==
    /\ pc = "awaitSign"
    /\ \E status \in {s \in Statuses : validateStatus(s)}, body \in Bodies :
         AfterSign(performSignAnswered(retryCount, status, body),
                   AnsweredWith(status, body))

\* the request is answered with any other status: axios rejects
HttpRejected ==
    /\ pc = "awaitSign"
    /\ \E status \in {s \in Statuses : ~validateStatus(s)} :
         Catch(RejectedWith(status))

\* the request fails or times out
TransportFailure ==
    /\ pc = "awaitSign"
    /\ \E err \in TransportErrors : Catch(FailedWith(err))

\* delay(CONFIG.RETRY_DELAY) is over: performSign(username, retryCount + 1)
RetryDelayDone ==
    /\ pc = "retryDelay"
    /\ retryCount' = retryCount + 1
    /\ requests' = requests + 1
    /\ pc' = "awaitSign"
    /\ lastCls' = NoCls
    /\ UNCHANGED << YBT_USERS, users, idx, delays, results, report, exitCode,
                    ended, today, notifyVars, cacheVars, weekly, panel >>

\* delay(1000) between accounts is over: the next iteration's performSign
NextDelayDone ==
    /\ pc = "nextDelay"
    /\ idx' = idx + 1
    /\ retryCount' = 0
    /\ requests' = 1
    /\ delays' = delays + 1
    /\ pc' = "awaitSign"
    /\ lastCls' = NoCls
    /\ UNCHANGED << YBT_USERS, users, results, report, exitCode, ended, today,
                    notifyVars, cacheVars, weekly, panel >>

ChannelRetries(ok) == IF ok THEN "ok" ELSE "posting"

\* a channel function returns true after its one axios.post, false from its
\* catch
ChannelResult(ok) == IF ok THEN "ok" ELSE "fail"

\* a channel's POST settles, and the channel has issued a further request
\* only if it is posting again; with the last one Promise.allSettled resolves,
\* sendNotify returns and main goes on to its closing delay(1000)
ChannelSettle ==
    /\ nstate = "running"
    /\ \E c \in Channels, ok \in BOOLEAN :
         /\ chan[c] = "posting"
         /\ LET ch == [chan EXCEPT ![c] = ChannelResult(ok)]
            IN  /\ chan' = ch
                /\ posts' = IF ch[c] = "posting" THEN posts + 1 ELSE posts
                /\ IF Settled(ch)
                   THEN /\ nstate' = "returned"
                        /\ nret' = AnySucceeded(ch)
                        /\ pc' = IF ncaller = "main" THEN "finalDelay" ELSE pc
                        /\ weekly' = IF ncaller = "weekly"
                                      THEN [weekly EXCEPT !.pc = "done",
                                                          !.exit = ExitCode(FALSE)]
                                      ELSE weekly
                        /\ panel' = IF ncaller = "panel"
                                     THEN [panel EXCEPT !.pc = "done",
                                                        !.ret = AnySucceeded(ch)]
                                     ELSE panel
                   ELSE UNCHANGED << nstate, nret, pc, weekly, panel >>
    /\ lastCls' = NoCls
    /\ UNCHANGED << YBT_USERS, users, idx, retryCount, requests, delays, results, report,
                    exitCode, ended, today, ncaller, nargs, nbody, ncalls,
                    cacheVars >>

\* main has settled and the process ends; nothing of it but the cache file
\* outlives it
ProcessEnds(threw) ==
    /\ pc' = "done"
    /\ exitCode' = ExitCode(EscapesMain(threw))
    /\ ended' = RunEnding
    /\ YBT_USERS' = UnsetEnv
    /\ users' = << >> /\ idx' = 0 /\ retryCount' = 0 /\ requests' = 0
    /\ delays' = 0 /\ results' = << >> /\ report' = NoReport
    /\ nstate' = "idle" /\ ncaller' = "none" /\ chan' = IdleChannels
    /\ nret' = FALSE /\ nargs' = NoArgs /\ nbody' = Undefined
    /\ posts' = 0 /\ ncalls' = 0
    /\ lastCls' = NoCls
    /\ UNCHANGED << today, cacheVars, weekly, panel >>

\* the closing delay(1000) is over: main resolves
FinalDelayDone ==
    /\ pc = "finalDelay"
    /\ ProcessEnds(FALSE)

\* the rejection of debugSendNotify reaches main's catch, which logs it;
\* main resolves without the closing delay
NotifyCaught ==
    /\ pc = "caught"
    /\ ProcessEnds(TRUE)

\* midnight passes
NextDay ==
    /\ today < MaxDay
    /\ today' = today + 1
    /\ firstToday' = EmptyMap
    /\ ioFailed' = FALSE
    /\ lastRead' = NoRead
    /\ lastCls' = NoCls
    /\ UNCHANGED << runVars, notifyVars, cacheFile, weekly, panel >>

Next ==
    \/ \E env \in RunEnvs : MainStart(env)
    \/ HttpAnswered
    \/ HttpRejected
    \/ TransportFailure
    \/ RetryDelayDone
    \/ NextDelayDone
    \/ ChannelSettle
    \/ FinalDelayDone
    \/ NotifyCaught
    \/ NextDay

Spec == Init /\ [][Next]_vars

\* a step of a run under way: the request in flight settles (axios answers,
\* rejects, fails or times out after CONFIG.TIMEOUT), a timer of delay()
\* fires, a channel's POST settles, or main comes to its end
RunStep ==
    \/ HttpAnswered
    \/ HttpRejected
    \/ TransportFailure
    \/ RetryDelayDone
    \/ NextDelayDone
    \/ ChannelSettle
    \/ FinalDelayDone
    \/ NotifyCaught

\* one run of the script, from the first start of the process
NextLive ==
    \/ \E env \in RunEnvs : pc = "idle" /\ MainStart(env)
    \/ RunStep

\* one run when every request settles and every timer fires
SpecLive == Init /\ [][NextLive]_vars /\ WF_vars(RunStep)

-----------------------------------------------------------------------------
(* getUserList on every value of the account-list variable *)

NextUsers == \E env \in AllEnvs : MainStart(env)

SpecUsers == Init /\ [][NextUsers]_vars

-----------------------------------------------------------------------------
(* sendNotify called on its own *)

\* a caller awaits sendNotify(title, content) in a process with env set
DirectCall ==
    /\ pc = "idle"
    /\ nstate = "idle"
    /\ \E title \in Titles, content \in Contents, env \in AllCreds :
         LET call == SendNotifyCall(title, content, env)
         IN  /\ nstate' = call.state
             /\ ncaller' = "direct"
             /\ chan' = call.chan
             /\ nret' = call.ret
             /\ nargs' = [title |-> title, content |-> content, env |-> env]
             /\ nbody' = call.body
             /\ posts' = call.posts
             /\ ncalls' = ncalls + 1
    /\ UNCHANGED << runVars, today, cacheVars, lastCls, weekly, panel >>

NextNotify ==
    \/ DirectCall
    \/ ChannelSettle

SpecNotify == Init /\ [][NextNotify]_vars

-----------------------------------------------------------------------------
(* The cache functions called on their own *)

\* the accounts and the data objects the cache functions are called with
CacheUsers == {<< "a" >>, << "b" >>}
SignData == {b \in Bodies : b.hasData}

\* the history of the readCache call r made on the file before: what it
\* returned, whether a file call of it failed, whether it changed the file,
\* and the same of the readCache call right before it, if there was one
\* with no write in between
ReadOf(r, before) ==
    [valid       |-> TRUE,
     ret         |-> r.ret,
     failed      |-> r.failed,
     changed     |-> r.file # before,
     second      |-> lastRead.valid,
     prevRet     |-> lastRead.ret,
     prevFailed  |-> lastRead.failed,
     prevChanged |-> lastRead.changed]

\* readCache()
CacheRead ==
    /\ pc = "idle"
    /\ \E io \in IOChoices(cacheFile, today, FALSE) :
         LET r == readCache(cacheFile, today, io)
         IN  /\ cacheFile' = r.file
             /\ lastRead' = ReadOf(r, cacheFile)
             /\ ioFailed' = (ioFailed \/ r.failed)
             /\ firstToday' = IF ioFailed \/ r.failed THEN EmptyMap
                              ELSE firstToday
    /\ UNCHANGED << runVars, notifyVars, today, lastCls, weekly, panel >>

\* getFromCache(u)
CacheGet(u) ==
    /\ pc = "idle"
    /\ \E io \in IOChoices(cacheFile, today, FALSE) :
         LET c == getFromCache(cacheFile, u, today, io)
         IN  /\ cacheFile' = c.file
             /\ lastRead' = ReadOf(readCache(cacheFile, today, io), cacheFile)
             /\ ioFailed' = (ioFailed \/ c.failed)
             /\ firstToday' = IF ioFailed \/ c.failed THEN EmptyMap
                              ELSE firstToday
    /\ UNCHANGED << runVars, notifyVars, today, lastCls, weekly, panel >>

\* saveToCacheIfFirstSign(u, signData, true)
CacheSave(u, signData) ==
    /\ pc = "idle"
    /\ \E io \in IOChoices(cacheFile, today, TRUE) :
         LET w == saveToCacheIfFirstSign(cacheFile, u, signData, today, io)
         IN  /\ cacheFile' = w.file
             /\ lastRead' = NoRead
             /\ ioFailed' = (ioFailed \/ w.failed)
             /\ firstToday' = IF ioFailed \/ w.failed THEN EmptyMap
                              ELSE Put(firstToday, u,
                                       Numbers(CacheEntry(signData, today)))
    /\ UNCHANGED << runVars, notifyVars, today, lastCls, weekly, panel >>

NextCache ==
    \/ CacheRead
    \/ \E u \in CacheUsers : CacheGet(u)
    \/ \E u \in CacheUsers, signData \in SignData : CacheSave(u, signData)
    \/ NextDay

SpecCache == Init /\ [][NextCache]_vars

-----------------------------------------------------------------------------
(* The weekly notification script's run *)

\* the values of WEEKLY_NOTIFY_ENABLED the script is started with
EnabledValues ==
    {EnvUnset, EnvSet(""), EnvSet("true"), EnvSet("false"), EnvSet("TRUE")}

\* the files the script is started with
ConfigFiles ==
    {MissingFile, UnparsableFile, JsonFile(NullConfig),
     JsonFile(getDefaultConfig),
     JsonFile([getDefaultConfig EXCEPT !.enabled = FALSE]),
     JsonFile([getDefaultConfig EXCEPT !.days = {1}]),
     JsonFile([getDefaultConfig EXCEPT !.contentOk = FALSE]),
     JsonFile([getDefaultConfig EXCEPT !.titleOk = FALSE,
                                       !.title_prefix = FALSE]),
     JsonFile([getDefaultConfig EXCEPT !.hasNotifications = FALSE,
                                       !.days = {}])}

\* the credential variables set when the script notifies
WeeklyCreds == RunCreds \cup {{}, {"PUSH_KEY", "BARK_PUSH"}}

\* the things a run of the script depends on: the two environment
\* variables, the file at configPath, the day, the outcome of the file
\* calls, whether ./sendNotify.js could be loaded, whether its sendNotify
\* rejects, and the channel credentials.  What a run never looks at is fixed.
WeeklyInputs ==
    {i \in [notifyEnabled : EnabledValues, file : ConfigFiles,
            weekday : Weekdays, titleSet : BOOLEAN, readOk : BOOLEAN,
            writeOk : BOOLEAN, hasNotifier : BOOLEAN, rejects : BOOLEAN,
            env : WeeklyCreds] :
        /\ ~NotifyEnabled(i.notifyEnabled) =>
              /\ i.file = MissingFile /\ i.weekday = 0 /\ ~i.titleSet
              /\ i.readOk /\ ~i.hasNotifier
        /\ i.file.kind # "missing" => i.writeOk
        /\ i.file.kind = "unparsable" => i.readOk
        /\ ~i.hasNotifier => ~i.rejects
        /\ (~i.hasNotifier \/ i.rejects) => i.env = {}}

\* builtinNotify only logs
builtinNotify == [state |-> "returned", chan |-> IdleChannels, ret |-> TRUE,
                  body |-> Undefined, posts |-> 0]

\* sendNotification up to its await: reading content.length of a missing
\* content throws before the try; a rejecting sendNotify is caught and
\* builtinNotify used instead
sendNotification(note, hasNotifier, rejects, env) ==
    IF ~note.content.isString
    THEN [threw |-> TRUE, via |-> "none", call |-> builtinNotify]
    ELSE IF ~hasNotifier
    THEN [threw |-> FALSE, via |-> "builtinNotify", call |-> builtinNotify]
    ELSE IF rejects
    THEN [threw |-> FALSE, via |-> "builtinNotify", call |-> builtinNotify]
    ELSE [threw |-> FALSE, via |-> "sendNotify",
          call |-> SendNotifyCall("title", note.content, env)]

\* main of the weekly script, up to its end or to the await of sendNotify
WeeklyMain ==
    /\ pc = "idle"
    /\ weekly.pc = "idle"
    /\ \E i \in WeeklyInputs :
         LET cfg     == loadConfig(i.file, i.readOk, i.writeOk)
             today_  == getTodayNotification(cfg.config, i.weekday, i.titleSet)
             sent    == sendNotification(today_.note, i.hasNotifier,
                                         i.rejects, i.env)
             started == [NoWeekly EXCEPT !.notifyEnabled = i.notifyEnabled,
                                         !.weekday = i.weekday]
             loaded  == [started EXCEPT !.loaded = TRUE,
                                        !.created = cfg.created,
                                        !.errors = validateConfig(cfg.config),
                                        !.config = cfg.config,
                                        !.note = today_.note]
             quiet   == /\ nstate' = "idle" /\ ncaller' = "none"
                        /\ chan' = IdleChannels /\ nret' = FALSE
                        /\ nargs' = NoArgs /\ nbody' = Undefined
                        /\ posts' = 0 /\ ncalls' = 0
         IN  IF ~NotifyEnabled(i.notifyEnabled)
             THEN /\ weekly' = [started EXCEPT !.pc = "done",
                                               !.exit = ExitCode(FALSE)]
                  /\ quiet
             ELSE IF today_.threw
             THEN /\ weekly' = [loaded EXCEPT !.pc = "done",
                                              !.exit = ExitCode(TRUE)]
                  /\ quiet
             ELSE IF today_.note.isNull
             THEN /\ weekly' = [loaded EXCEPT !.pc = "done",
                                              !.exit = ExitCode(FALSE)]
                  /\ quiet
             ELSE IF sent.threw
             THEN /\ weekly' = [loaded EXCEPT !.pc = "done",
                                              !.exit = ExitCode(TRUE)]
                  /\ quiet
             ELSE IF sent.via = "builtinNotify"
             THEN /\ weekly' = [loaded EXCEPT !.pc = "done",
                                              !.via = sent.via,
                                              !.exit = ExitCode(FALSE)]
                  /\ quiet
             ELSE /\ weekly' =
                       IF sent.call.state = "running"
                       THEN [loaded EXCEPT !.pc = "sending",
                                           !.via = sent.via]
                       ELSE [loaded EXCEPT !.pc = "done", !.via = sent.via,
                                           !.exit = ExitCode(FALSE)]
                  /\ nstate' = sent.call.state
                  /\ ncaller' = "weekly"
                  /\ chan' = sent.call.chan
                  /\ nret' = sent.call.ret
                  /\ nargs' = [title |-> "title", content |-> today_.note.content,
                               env |-> i.env]
                  /\ nbody' = sent.call.body
                  /\ posts' = sent.call.posts
                  /\ ncalls' = 1
    /\ UNCHANGED << runVars, today, cacheVars, lastCls, panel >>

NextWeekly ==
    \/ WeeklyMain
    \/ ChannelSettle

SpecWeekly == Init /\ [][NextWeekly]_vars

-----------------------------------------------------------------------------
(* sendQLNotify called by main of the panel-API variant *)

\* what the fallback depends on: whether sendNotify is a function, whether
\* it rejects, and the channel credentials
FallbackInputs ==
    {i \in [isFunction : BOOLEAN, rejects : BOOLEAN, env : WeeklyCreds] :
        /\ ~i.isFunction => ~i.rejects
        /\ (~i.isFunction \/ i.rejects) => i.env = {}}

\* main awaits sendQLNotify(title, finalMessage): the PUT to the first url
PanelCall ==
    /\ pc = "idle"
    /\ panel.pc = "idle"
    /\ nstate = "idle"
    /\ panel' = [NoPanel EXCEPT !.pc = "put", !.sent = << 1 >>]
    /\ UNCHANGED << runVars, notifyVars, today, cacheVars, lastCls, weekly >>

\* the PUT in flight settles: sendQLNotify returns true, or goes on to the
\* next url, or after the last one awaits fallbackSendNotify
PanelPutSettles ==
    /\ panel.pc = "put"
    /\ \E res \in PutResults :
         LET url  == panel.sent[Len(panel.sent)]
             over == [panel EXCEPT !.answers = Append(@, res)]
             quiet == UNCHANGED notifyVars
         IN  IF Accepts(res)
             THEN /\ panel' = [over EXCEPT !.pc = "done", !.ret = TRUE]
                  /\ quiet
             ELSE IF url + 1 \in possibleUrls
             THEN /\ panel' = [over EXCEPT !.sent = Append(@, url + 1)]
                  /\ quiet
             ELSE \E i \in FallbackInputs :
                    LET f  == fallbackSendNotify(i.isFunction, i.rejects, i.env)
                        fb == [over EXCEPT !.fallbacks = @ + 1,
                                           !.notifies = IF f.called THEN @ + 1
                                                        ELSE @]
                    IN  IF f.call.state = "running"
                        THEN /\ panel' = [fb EXCEPT !.pc = "fallback"]
                             /\ nstate' = f.call.state
                             /\ ncaller' = "panel"
                             /\ chan' = f.call.chan
                             /\ nret' = f.call.ret
                             /\ nargs' = [title |-> "YBT_RESULT",
                                          content |-> Str(REPORT_CAP),
                                          env |-> i.env]
                             /\ nbody' = f.call.body
                             /\ posts' = f.call.posts
                             /\ ncalls' = 1
                        ELSE /\ panel' = [fb EXCEPT
                                            !.pc = "done",
                                            !.ret = f.call.state = "returned"
                                                    /\ f.call.ret,
                                            !.threw = EscapesFallback(
                                                f.call.state = "threw")]
                             /\ quiet
    /\ UNCHANGED << runVars, today, cacheVars, lastCls, weekly >>

NextPanel ==
    \/ PanelCall
    \/ PanelPutSettles
    \/ ChannelSettle

SpecPanel == Init /\ [][NextPanel]_vars

-----------------------------------------------------------------------------
(* Properties *)

\* the body has the shape of a fresh check-in: sign_status true and both
\* traffic fields numbers
FirstSignShape(body) ==
    /\ body.top /\ body.hasData
    /\ body.sign_status = TRUE
    /\ IsNumber(body.get_traffic)
    /\ IsNumber(body.total_traffic)

\* the response just classified went down the already-signed branch
JustAlreadySigned ==
    /\ lastCls.kind = "answered"
    /\ IsAlreadySigned(lastCls.body)
    /\ ~(lastCls.status = 200 /\ FirstSignShape(lastCls.body))

\* the outcome of a failed performSign
IsErrorOutcome(out, err) ==
    /\ out.success = FALSE
    /\ out.isFirstSign = FALSE
    /\ out.dataSource = "error"
    /\ out.message = Message("sign_failed", err.message)
    /\ out.details = Details("errcode", 0, 0, 0, 0, err.code)

\* C1: once sendNotify, called with a title and a string body, has returned,
\* its value is true if and only if some channel whose credential variables
\* are set completed its POST without error.
C1_TrueIffAnEnabledChannelDelivered ==
    (nstate = "returned" /\ nargs.title # "" /\ nargs.content.isString)
        => (nret <=> \E c \in Channels :
                        Enabled(c, nargs.env) /\ chan[c] = "ok")

\* a call in which one enabled channel failed and another succeeded
\* returned true
C1_OneFailedOneDelivered ==
    /\ nstate = "returned" /\ nargs.title # "" /\ nargs.content.isString
    /\ nret = TRUE
    /\ \E c, d \in Channels :
         /\ Enabled(c, nargs.env) /\ chan[c] = "ok"
         /\ Enabled(d, nargs.env) /\ chan[d] = "fail"

\* C2: when an account had a first success earlier today and no cache file
\* call has failed since, an already-signed response for it is classified
\* as served from the cache and its details show exactly the three numbers
\* of that first success.
C2_AlreadySignedShowsCachedNumbers ==
    (JustAlreadySigned /\ ~ioFailed /\ lastCls.username \in DOMAIN firstToday)
        => /\ lastCls.out.success = TRUE
           /\ lastCls.out.isFirstSign = FALSE
           /\ lastCls.out.dataSource = "cache"
           /\ lastCls.out.details.kind = "full"
           /\ Numbers(lastCls.out.details) = firstToday[lastCls.username]

\* an already-signed response without traffic fields, for an account whose
\* first success today brought traffic, is shown with the cached traffic
C2_CacheServedAfterFirstSuccess ==
    /\ JustAlreadySigned /\ ~ioFailed
    /\ lastCls.username \in DOMAIN firstToday
    /\ lastCls.body.get_traffic = Absent
    /\ lastCls.out.dataSource = "cache"
    /\ lastCls.out.details.get_traffic = 50
    /\ lastCls.out.details.total_traffic = 500

\* C3 as stated: an answered response whose data has sign_status false and
\* numeric get_traffic and total_traffic yields the first-success outcome
\* and a cache entry dated today for the account.
C3_SignStatusFalseIsFirstSuccess ==
    (/\ lastCls.kind = "answered"
     /\ lastCls.body.top /\ lastCls.body.hasData
     /\ lastCls.body.sign_status = FALSE
     /\ IsNumber(lastCls.body.get_traffic)
     /\ IsNumber(lastCls.body.total_traffic))
        => /\ lastCls.out.success = TRUE
           /\ lastCls.out.isFirstSign = TRUE
           /\ lastCls.out.dataSource = "api"
           /\ EntryToday(cacheFile, lastCls.username, today) # NoEntry

\* C3: an answered response with status 200 whose data has sign_status true
\* and numeric get_traffic and total_traffic yields the first-success
\* outcome, and, unless the write of the cache file fails, the file then
\* holds an entry dated today with the response's numbers for the account.
C3_FreshSignIsFirstSuccessAndCached ==
    (/\ lastCls.kind = "answered"
     /\ lastCls.status = 200
     /\ FirstSignShape(lastCls.body))
        => /\ lastCls.out.success = TRUE
           /\ lastCls.out.isFirstSign = TRUE
           /\ lastCls.out.dataSource = "api"
           /\ lastCls.out.message = Message("sign_ok", "")
           /\ lastCls.writeOk =>
                 EntryToday(cacheFile, lastCls.username, today) =
                     [date          |-> today,
                      sign_count    |-> OrZero(lastCls.body.sign_count),
                      get_traffic   |-> lastCls.body.get_traffic,
                      total_traffic |-> lastCls.body.total_traffic]

\* a fresh check-in was classified and its entry stands in the file
C3_FreshSignCached ==
    /\ lastCls.kind = "answered"
    /\ lastCls.status = 200
    /\ FirstSignShape(lastCls.body)
    /\ lastCls.out.isFirstSign
    /\ lastCls.pre = NoEntry
    /\ EntryToday(cacheFile, lastCls.username, today).get_traffic = 50

\* C4: never more than 4 requests are issued for one account, and when the
\* fourth fails in transport the account's outcome is the error outcome
\* with the message and the code of that fourth error.
C4_AtMostFourRequestsThenError ==
    /\ requests <= 4
    /\ (lastCls.kind = "failed" /\ lastCls.requests = 4)
          => IsErrorOutcome(lastCls.out, lastCls.err)

\* four requests timed out and the account was given the error outcome
C4_FourthTimeoutIsError ==
    /\ lastCls.kind = "failed"
    /\ lastCls.requests = 4
    /\ lastCls.err.code = "ECONNABORTED"
    /\ lastCls.out.details.code = "ECONNABORTED"
    /\ Len(results) = idx

\* C5: an answered request, however many retried transport failures came
\* before it, gives the account the outcome the answered response
\* determines, never the transport-error outcome.
C5_AnsweredAfterRetriesDecides ==
    lastCls.kind = "answered"
        => /\ lastCls.out =
                OutcomeOf(lastCls.username,
                          Answered(lastCls.status, lastCls.body), lastCls.hit)
           /\ lastCls.out.details.kind # "errcode"
           /\ results[Len(results)] = lastCls.out

\* two failures were retried and the third request, a fresh check-in, was
\* classified as first success
C5_TwoFailuresThenSuccess ==
    /\ lastCls.kind = "answered"
    /\ lastCls.requests = 3
    /\ retryCount = 2
    /\ lastCls.out.success = TRUE
    /\ lastCls.out.dataSource = "api"

Classification(out) == [out EXCEPT !.details.status = 0]

\* C7 as stated: the same body answered with status 200 and with status 400,
\* the cache being the same, is classified alike, in the cache variant and
\* in the panel-API variant.
C7_StatusNeverMatters ==
    lastCls.kind = "answered"
        => /\ lastCls.out.dataSource = lastCls.alt.dataSource
           /\ lastCls.out.isFirstSign = lastCls.alt.isFirstSign
           /\ lastCls.out.message = lastCls.alt.message
           /\ lastCls.basic = lastCls.basicAlt

\* C7: in the cache variant the status decides between first success (200)
\* and already signed (400) for a body whose data has sign_status true and
\* numeric traffic fields, both being successes; every other body gets the
\* same outcome with either status, but for the status its details print.  In the panel-API variant the status
\* decides for every body that has a data object, and for no other.
C7_StatusMattersOnlyForFreshSignBodies ==
    lastCls.kind = "answered"
        => /\ lastCls.out.success = lastCls.alt.success
           /\ ~FirstSignShape(lastCls.body) =>
                 Classification(lastCls.out) = Classification(lastCls.alt)
           /\ FirstSignShape(lastCls.body) =>
                 /\ lastCls.out.isFirstSign = (lastCls.status = 200)
                 /\ lastCls.alt.isFirstSign = (lastCls.status = 400)
           /\ (lastCls.body.top /\ lastCls.body.hasData)
                 <=> lastCls.basic # lastCls.basicAlt

\* a fresh check-in body answered with status 400 was classified as already
\* signed where status 200 would have made it the first success
C7_SameBodyOtherStatusDiffers ==
    /\ lastCls.kind = "answered"
    /\ lastCls.status = 400
    /\ FirstSignShape(lastCls.body)
    /\ lastCls.out.dataSource \in {"cache", "api_limited"}
    /\ lastCls.alt.dataSource = "api"

\* the identifiers of the list, and the pieces of the variable that are not
\* blank
Blank(u) == \A k \in 1..Len(u) : u[k] \in Whitespace
Pieces(env) == IF env.set /\ env.val # << >> THEN SplitOn(env.val, << >>)
               ELSE << >>

Reported == pc \in {"notifying", "finalDelay"}

C10_AlreadySignedWithoutEntryIsLimited ==
    (JustAlreadySigned /\ lastCls.pre = NoEntry)
        => /\ lastCls.out.success = TRUE
           /\ lastCls.out.isFirstSign = FALSE
           /\ lastCls.out.dataSource = "api_limited"
           /\ lastCls.out.details =
                 Details("count_note", OrZero(lastCls.body.sign_count),
                         0, 0, 0, "")
           /\ EntryToday(cacheFile, lastCls.username, today) = NoEntry

\* on the second day an already-signed response carrying traffic numbers,
\* for an account without an entry of that day, showed the count alone
C10_LimitedWithoutEntryOfTheDay ==
    /\ JustAlreadySigned /\ lastCls.pre = NoEntry
    /\ today = 2
    /\ IsNumber(lastCls.body.get_traffic)
    /\ lastCls.out.dataSource = "api_limited"
    /\ lastCls.out.details.sign_count = 10

\* C11 as stated: readCache returns no entry dated another day, and of two
\* successive readCache calls on the same day the second returns the same
\* entries and leaves the file as it is.
C11_SecondReadSameAndSilent ==
    lastRead.valid
        => /\ \A u \in DOMAIN lastRead.ret : lastRead.ret[u].date = today
           /\ lastRead.second
                 => /\ lastRead.ret = lastRead.prevRet
                    /\ ~lastRead.changed

\* C11: readCache returns no entry dated another day; of two successive
\* readCache calls on the same day of which no file call fails, the second
\* returns the same entries and leaves the file as it is.
C11_SecondReadSameUnlessFileCallFails ==
    lastRead.valid
        => /\ \A u \in DOMAIN lastRead.ret : lastRead.ret[u].date = today
           /\ (lastRead.second /\ ~lastRead.failed /\ ~lastRead.prevFailed)
                 => /\ lastRead.ret = lastRead.prevRet
                    /\ ~lastRead.changed

\* a read purged the entries of yesterday and rewrote the file, and the read
\* after it returned the same set and left the file alone
C11_PurgedOnceThenStable ==
    /\ lastRead.valid /\ lastRead.second
    /\ ~lastRead.failed /\ ~lastRead.prevFailed
    /\ lastRead.prevChanged
    /\ ~lastRead.changed
    /\ lastRead.ret = lastRead.prevRet
    /\ today > 1

\* sendNotify has been called with a string body and at least a title or
\* some text
CalledWithString ==
    /\ ncalls > 0
    /\ nargs.content.isString
    /\ nargs.title # "" \/ nargs.content.len > 0

\* the channels whose credential variables are set
EnabledChannels == {c \in Channels : Enabled(c, nargs.env)}

\* C12 as stated: sendNotify never throws or rejects, whatever its title and
\* body arguments and whatever the channels do.
C12_NeverThrows == nstate # "threw"

\* no credential variable is set, or only a Telegram token or user id
\* without the other and a DingTalk secret without the token
NoChannelConfigured(env) ==
    \/ env \subseteq {"TG_BOT_TOKEN", "DD_BOT_SECRET"}
    \/ env \subseteq {"TG_USER_ID", "DD_BOT_SECRET"}

\* C13: called with a string body while no channel has its credentials,
\* sendNotify returns false having issued no HTTP request, every channel
\* having been skipped.
C13_NoCredentialNoRequest ==
    (CalledWithString /\ NoChannelConfigured(nargs.env))
        => /\ nstate = "returned"
           /\ nret = FALSE
           /\ posts = 0
           /\ \A c \in Channels : chan[c] = "skipped"

\* a call with a Telegram token but no user id and a DingTalk secret but no
\* token returned false without a request
C13_PartlyConfiguredSkipped ==
    /\ CalledWithString
    /\ nargs.env = {"TG_BOT_TOKEN", "DD_BOT_SECRET"}
    /\ nstate = "returned" /\ nret = FALSE /\ posts = 0

\* C14: a sendNotify call issues the request of every enabled channel at
\* once, keeps running while any of them is in flight whatever became of
\* the others, and has returned only when all of them have settled.
C14_AllIssuedAllAwaited ==
    CalledWithString
        => /\ posts = Cardinality(EnabledChannels)
           /\ \A c \in Channels :
                 IF c \in EnabledChannels
                 THEN chan[c] \in {"posting", "ok", "fail"}
                 ELSE chan[c] = "skipped"
           /\ nstate = "running" <=> \E c \in Channels : chan[c] = "posting"
           /\ nstate = "returned" <=> \A c \in Channels : chan[c] # "posting"

\* one channel has failed, one has delivered, a third is still in flight and
\* sendNotify has not returned
C14_FailureLeavesOthersInFlight ==
    /\ CalledWithString
    /\ nstate = "running"
    /\ posts = 3
    /\ \E c, d, e \in Channels :
         chan[c] = "fail" /\ chan[d] = "ok" /\ chan[e] = "posting"

\* C15: the body the channels are given is the body sendNotify was called
\* with when that has at most 4000 characters, and else its first 4000
\* characters followed by the marker, the same for every channel.
C15_TruncatedOnceBeforeFanOut ==
    CalledWithString
        => /\ nbody.isString
           /\ nbody.len = IF nargs.content.len > 4000
                          THEN 4000 + MARKER_LEN
                          ELSE nargs.content.len

\* a body of 4001 characters went out to two channels as 4000 characters
\* and the marker
C15_LongBodyCut ==
    /\ CalledWithString
    /\ nargs.content.len = 4001
    /\ nbody.len = 4000 + MARKER_LEN
    /\ posts = 2

\* the account-list variable is unset or holds only blanks and delimiters
OnlyBlanks(env) ==
    ~env.set \/ \A k \in 1..Len(env.val) : env.val[k] \in Delims \cup Whitespace

\* C16: a main started with the account-list variable unset or holding only
\* blanks and delimiters returns at once: no request is issued, the cache
\* file is left as it is, sendNotify is not called, and the process ends
\* with exit code 0.
C16_NoAccountsReturnsEarly ==
    [][(pc \in {"idle", "done"} /\ today' = today /\ OnlyBlanks(YBT_USERS'))
          => /\ pc' = "done"
             /\ exitCode' = "0"
             /\ requests' = 0
             /\ users' = << >>
             /\ cacheFile' = cacheFile
             /\ ncalls' = 0 /\ nstate' = "idle" /\ posts' = 0]_vars

\* a run with only blanks and delimiters for accounts has ended with exit
\* code 0, the cache file of an earlier run standing as it was
C16_BlankListEndedClean ==
    /\ pc = "done"
    /\ YBT_USERS = SetEnv(<< " ", "&" >>)
    /\ exitCode = "0"
    /\ requests = 0 /\ ncalls = 0
    /\ cacheFile.exists

\* C17: the process of a check-in run never ends with exit code 1: once
\* main has settled the exit code is 0, whatever the outcomes of the
\* accounts and whether sendNotify returned true, returned false or
\* rejected.
C17_RunExitsZero ==
    /\ exitCode # "1"
    /\ pc = "done" <=> exitCode = "0"
    /\ ExitCode(TRUE) = "1"

\* a run in which both accounts failed and sendNotify rejected has ended
\* with exit code 0
C17_AllFailedNotifierThrewExitZero ==
    /\ pc = "done"
    /\ exitCode = "0"
    /\ ended.total = 2 /\ ended.fail = 2
    /\ ended.threw

\* C18: a failure of the cache file never reaches the outcome: when the
\* read fails an already-signed response is 'api_limited' as on a miss,
\* when the write fails a fresh check-in is the first success all the same,
\* and either way the outcome is recorded and the run goes on.
C18_CacheFailureNeverFatal ==
    /\ (JustAlreadySigned /\ lastCls.readFailed)
          => /\ lastCls.hit = NoEntry
             /\ lastCls.out =
                   OutcomeOf(lastCls.username,
                             Answered(lastCls.status, lastCls.body), NoEntry)
             /\ lastCls.out.success = TRUE
             /\ lastCls.out.dataSource = "api_limited"
    /\ (lastCls.kind = "answered" /\ lastCls.status = 200
           /\ FirstSignShape(lastCls.body)
           /\ (~lastCls.writeOk \/ lastCls.readFailed))
          => /\ lastCls.out.success = TRUE
             /\ lastCls.out.isFirstSign = TRUE
             /\ lastCls.out.dataSource = "api"
             /\ Numbers(lastCls.out.details) =
                   Numbers(CacheEntry(lastCls.body, today))
    /\ lastCls.kind \in {"answered", "rejected", "failed"}
          => /\ Len(results) = idx
             /\ results[idx] = lastCls.out
             /\ pc = IF idx < Len(users) THEN "nextDelay"
                     ELSE CASE nstate = "running" -> "notifying"
                            [] nstate = "threw"   -> "caught"
                            [] OTHER              -> "finalDelay"

\* the read of the cache file failed for an account whose entry of today
\* is in it: the outcome was 'api_limited', and the next account follows
C18_FailedReadIsAMiss ==
    /\ JustAlreadySigned /\ lastCls.readFailed
    /\ lastCls.pre # NoEntry
    /\ lastCls.out.dataSource = "api_limited"
    /\ pc = "nextDelay"

\* the response just classified has the top-level message of an unknown
\* account and is neither a fresh check-in nor already signed
JustNotFound ==
    /\ lastCls.kind = "answered"
    /\ ~(lastCls.status = 200 /\ FirstSignShape(lastCls.body))
    /\ ~(lastCls.body.top /\ lastCls.body.hasData
          /\ lastCls.body.sign_status = TRUE)
    /\ lastCls.body.top /\ lastCls.body.message = NOT_FOUND

\* C19: such a response yields a failure with the message of the unknown
\* account and leaves the cache file as it is; and the report of a run of
\* two accounts, the first a fresh check-in and the second unknown, counts
\* total 2, success 1, fail 1.
C19_NotFoundFailsWithoutCacheWrite ==
    /\ JustNotFound
          => /\ lastCls.out.success = FALSE
             /\ lastCls.out.isFirstSign = FALSE
             /\ lastCls.out.message = Message(NOT_FOUND, "")
             /\ lastCls.out.dataSource = "error"
             /\ ~lastCls.fileChanged
    /\ (/\ Reported /\ Len(results) = 2
        /\ results[1].isFirstSign
        /\ results[2].message = Message(NOT_FOUND, ""))
          => /\ report.total = 2
             /\ report.success = 1
             /\ report.fail = 1

\* accounts a and b, a checked in afresh and b is unknown: the report is
\* rendered with total 2, success 1, fail 1
C19_FreshThenNotFoundReported ==
    /\ Reported
    /\ JustNotFound
    /\ lastCls.body.hasData
    /\ users = << << "a" >>, << "b" >> >>
    /\ results[1].isFirstSign
    /\ report = [total |-> 2, success |-> 1, fail |-> 1, first |-> 1,
                 cached |-> 0]

\* C20: WEEKLY_NOTIFY_ENABLED is optional and defaults to true: a run of the
\* weekly script started with the variable unset loads the configuration and
\* sends today's notification.
C20_UnsetMeansEnabled ==
    (weekly.pc = "done" /\ ~weekly.notifyEnabled.set)
        => (weekly.loaded /\ weekly.via # "none")

\* the entry of v in the file f, NoEntry when it has none
EntryOf(f, v) ==
    IF f.exists /\ v \in DOMAIN f.entries THEN f.entries[v] ELSE NoEntry

\* the step is the classification of a response as first success
FirstSuccessStep == pc = "awaitSign" /\ lastCls'.out.isFirstSign

RequestIssued ==
    /\ pc' = "awaitSign"
    /\ (pc # "awaitSign" \/ << idx, retryCount >>' # << idx, retryCount >>)

\* the outcomes recorded so far are those of the first accounts of the
\* list, in its order, and the account at work is the next one
InListOrder ==
    /\ Len(results) <= Len(users)
    /\ \A k \in 1..Len(results) : results[k].username = users[k]
    /\ pc \in {"awaitSign", "retryDelay"}
          => (idx \in 1..Len(users) /\ Len(results) = idx - 1)
    /\ pc = "nextDelay" => (idx < Len(users) /\ Len(results) = idx)

\* C22: a sign-in request is issued only while no other is in flight, and
\* the first request of an account only when the outcomes of all accounts
\* before it, and of no other, are recorded; the recorded outcomes are at
\* every moment those of the first accounts of the list, in list order.
C22_OneRequestAtATimeInListOrder ==
    [][/\ InListOrder'
       /\ RequestIssued => (pc # "awaitSign" /\ Len(results) = idx' - 1)
      ]_vars

\* the request of the second of two different accounts is in flight, the
\* outcome of the first being the only one recorded
C22_SecondRequestAfterFirstOutcome ==
    /\ pc = "awaitSign" /\ idx = 2 /\ requests = 1
    /\ Len(users) = 2 /\ users[1] # users[2]
    /\ Len(results) = 1 /\ results[1].username = users[1]

\* C23: while account i is at work exactly i - 1 inter-account delays have
\* elapsed; a delay is pending after an outcome only when another account
\* follows; and when the notification step is reached, after the last of n
\* outcomes of whatever kind, n - 1 delays have elapsed and none is pending.
C23_OneDelayBetweenAccountsNoneAfterLast ==
    /\ pc \in {"awaitSign", "retryDelay"} => delays = idx - 1
    /\ pc = "nextDelay"
          => (delays = idx - 1 /\ idx < Len(users) /\ Len(results) = idx)
    /\ pc \in {"notifying", "finalDelay", "caught"}
          => (delays = Len(users) - 1 /\ Len(results) = Len(users))

\* a run of two accounts, the first of which failed, has reached the
\* notification step after one delay
C23_TwoAccountsOneDelay ==
    /\ pc \in {"notifying", "finalDelay", "caught"}
    /\ Len(users) = 2 /\ Len(results) = 2
    /\ ~results[1].success
    /\ delays = 1

\* C24: while an account is at work or a delay between accounts is pending
\* the Notifier has not been called and no notification request is out;
\* once the loop is over it has been called exactly once, by main, with the
\* fixed title, and every account of the list has its outcome.
C24_NotifiedOnceAfterAllAccounts ==
    /\ pc \in {"awaitSign", "retryDelay", "nextDelay"}
          => (ncalls = 0 /\ posts = 0 /\ nstate = "idle")
    /\ pc \in {"notifying", "finalDelay", "caught"}
          => /\ ncalls = 1
             /\ ncaller = "main"
             /\ nargs.title = "YBT_REPORT"
             /\ Len(users) > 0
             /\ Len(results) = Len(users)
    /\ pc \in {"idle", "done"} => (ncalls = 0 /\ posts = 0)

\* both accounts of a run have their outcome and the one notification
\* request of the run is in flight
C24_ReportOutAfterBothAccounts ==
    /\ pc = "notifying"
    /\ Len(users) = 2 /\ Len(results) = 2
    /\ ncalls = 1 /\ posts = 1
    /\ nargs.title = "YBT_REPORT"

C26_InvalidConfigReplacedByDefault ==
    (weekly.pc = "done" /\ weekly.loaded /\ weekly.errors)
        => /\ weekly.config = getDefaultConfig
           /\ ~weekly.note.isNull
           /\ weekly.note.name = "title"
           /\ weekly.note.content.isString
           /\ weekly.via # "none"
           /\ weekly.exit = ExitCode(FALSE)

\* the step has stored or replaced the entry of w
Saved(w) ==
    /\ EntryOf(cacheFile', w) # NoEntry
    /\ EntryOf(cacheFile', w) # EntryOf(cacheFile, w)

\* C27: on one calendar day, whatever the file calls do, a step that stores
\* the entry of an account leaves every other account's entry of the day in
\* the file with its numbers, and no step removes an entry of the day.
C27_SameDayEntriesSurviveOtherSaves ==
    [][today' = today
         => \A v \in DOMAIN cacheFile.entries :
              cacheFile.entries[v].date = today
                => /\ EntryOf(cacheFile', v) # NoEntry
                   /\ (\E w \in DOMAIN cacheFile'.entries : w # v /\ Saved(w))
                         => EntryOf(cacheFile', v) = cacheFile.entries[v]
      ]_vars

\* a run is under way
Running == pc \notin {"idle", "done"}

\* the account loop is over: main is at its notification step
AtNotification == pc \in {"notifying", "finalDelay", "caught"}

\* C28: when every request settles, a run under way comes to its
\* notification step with exactly one outcome for each account of its list
\* and then completes with exit code 0; no account is given more than 4
\* requests (so a run of n accounts issues at most 4n), and never are there
\* more outcomes than accounts.
C28_RunTerminates ==
    /\ [](requests <= MAX_RETRY + 1 /\ Len(results) <= Len(users))
    /\ [](AtNotification => Len(results) = Len(users))
    /\ pc = "awaitSign" ~> AtNotification
    /\ Running ~> (pc = "done" /\ exitCode = ExitCode(FALSE))

\* a run of two accounts has ended with exit code 0 after both accounts
\* failed
C28_TwoFailuresRunCompleted ==
    /\ pc = "done" /\ exitCode = ExitCode(FALSE)
    /\ ended.total = 2 /\ ended.fail = 2

\* the positions of the answers of the call that were a 200 or a 201
AcceptedAt == {k \in 1..Len(panel.answers) : panel.answers[k] \in {200, 201}}

\* C29: sendQLNotify requests the panel urls in list order, one at a time;
\* an answer of 200 or 201 is the last request of the call, which returns
\* true without the fallback; the fallback is called exactly once when all
\* six urls have been tried without such an answer and never otherwise; the
\* call never throws; at most one url has answered 200 or 201.
C29_UrlsInOrderUntilAcceptedElseFallbackOnce ==
    /\ \A k \in 1..Len(panel.sent) : panel.sent[k] = k
    /\ Len(panel.sent) <= Cardinality(possibleUrls)
    /\ Len(panel.sent) - Len(panel.answers) =
          (IF panel.pc = "put" THEN 1 ELSE 0)
    /\ \A k \in AcceptedAt :
          /\ k = Len(panel.sent)
          /\ panel.pc = "done" /\ panel.ret = TRUE
          /\ panel.fallbacks = 0 /\ panel.notifies = 0
    /\ Cardinality(AcceptedAt) <= 1
    /\ panel.fallbacks <= 1 /\ panel.notifies <= panel.fallbacks
    /\ panel.fallbacks = 1
          <=> /\ panel.pc \in {"fallback", "done"}
              /\ AcceptedAt = {}
    /\ panel.fallbacks = 1 => Len(panel.answers) = Cardinality(possibleUrls)
    /\ panel.pc = "fallback" => (nstate = "running" /\ ncaller = "panel")
    /\ ~panel.threw

\* the third url answered 201 after the first failed and the second
\* answered 204: the call returned true after three requests and no
\* fallback
C29_ThirdUrlAccepted ==
    /\ panel.pc = "done" /\ panel.ret = TRUE
    /\ panel.answers = << 0, 204, 201 >>
    /\ panel.sent = << 1, 2, 3 >>
    /\ panel.fallbacks = 0

\* C30: every recorded outcome has one of the four data sources, is a first
\* sign exactly when its source is the API answer in full, and is a failure
\* exactly when its source is 'error'; and in every report the first-sign
\* and the cache-served counts together do not exceed the success count,
\* and success and fail counts add up to the total.
C30_OutcomeFieldsConsistent ==
    /\ \A k \in 1..Len(results) :
          /\ results[k].dataSource \in {"api", "cache", "api_limited", "error"}
          /\ results[k].isFirstSign <=> results[k].dataSource = "api"
          /\ ~results[k].success <=> results[k].dataSource = "error"
    /\ (Reported \/ pc = "caught")
          => /\ report.total = Len(results)
             /\ report.first + report.cached <= report.success
             /\ report.success + report.fail = report.total

\* the report of a run over one account listed twice: a first success, then
\* an already-signed answer served from the cache
C30_FirstThenCacheServedReported ==
    /\ Reported
    /\ Len(results) = 2
    /\ results[1].dataSource = "api" /\ results[2].dataSource = "cache"
    /\ report.first = 1 /\ report.cached = 1 /\ report.success = 2
    /\ report.fail = 0

=============================================================================
